---- MODULE Spec2Model ----
(***************************************************************************)
(* RAG-pdf-chatbot: the query pipeline of RAGSystem (src/src/rag_system.py),*)
(* the answer synthesizer GroqClient (src/src/llm_client.py) and the        *)
(* conversation store RAGSystemSaver (src/saver.py).                        *)
(*                                                                          *)
(* Representation of Python values:                                         *)
(*   - a dict is a function from its keys (strings) to values; a missing    *)
(*     key is a key outside DOMAIN, read with Get(d, k, default);           *)
(*   - a float similarity s is the integer 100*s (hundredths);              *)
(*   - the float avg_similarity is an exact fraction [num, den] in lowest   *)
(*     terms, in hundredths (float rounding is below this resolution);      *)
(*   - a page locator is tagged with its Python type, [kind, text], so an   *)
(*     int 3 and a str "3" are different values with the same rendering;    *)
(*   - strings are strings, lists are sequences.                            *)
(***************************************************************************)
EXTENDS Integers, Sequences, FiniteSets, TLC

(* ------------------------------ bounds --------------------------------- *)

\* longest context list the retriever hands back (top_k)
MaxContexts == 2

\* number of entries the conversation log may reach
MaxHistory == 2

\* number of rows the conversations table may reach
MaxRows == 2

\* last second the store's clock reaches
MaxClock == 1

(* ------------------------- Python value helpers ------------------------ *)

None == "None"

PyInt(s) == [kind |-> "int", text |-> s]
PyStr(s) == [kind |-> "str", text |-> s]

\* dict.get(k, default)
Get(d, k, default) == IF k \in DOMAIN d THEN d[k] ELSE default

EmptyDict == [k \in {} |-> None]

\* d[k] = v on a dict
SetKey(d, k, v) == [x \in (DOMAIN d) \cup {k} |-> IF x = k THEN v ELSE d[x]]

RECURSIVE GCD(_, _)
GCD(a, b) == IF b = 0 THEN a ELSE GCD(b, a % b)

\* the exact quotient n / d (d > 0) of two non-negative numbers
Frac(n, d) == [num |-> n \div GCD(n, d), den |-> d \div GCD(n, d)]

\* the float 0.0
Zero == [num |-> 0, den |-> 1]

RECURSIVE SumSeq(_)
SumSeq(s) == IF s = <<>> THEN 0 ELSE Head(s) + SumSeq(Tail(s))

\* all sequences over S of length 0..n
SeqsUpTo(S, n) == UNION {[1..k -> S] : k \in 0..n}

(* ------------------------------ inputs --------------------------------- *)

Threads == {"main"}

Questions == {"q1", "q2"}

\* the text_query arguments of search_conversations
SearchTexts == {"q1", "alpha", "ERROR"}

\* the min_similarity arguments of search_conversations, in hundredths
MinSimilarities == {0, 50}

\* the limit arguments of load_conversations_sqlite (20 is the default)
Limits == {1, 20}

DefaultModel == "llama-3.3-70b-versatile"

\* chunks the retriever can return: one with full metadata and an integer
\* page, one whose metadata has no page and that carries no similarity_score
Chunks ==
  { [content |-> "alpha",
     metadata |-> [source_file |-> "a.pdf", page |-> PyInt("3")],
     similarity_score |-> 85],
    [content |-> "beta",
     metadata |-> [source_file |-> "b.pdf"]] }

ContextLists == SeqsUpTo(Chunks, MaxContexts)

\* what client.chat.completions.create can do: return a completion with a
\* message, return a completion with no choices, or raise
CompletionOutcomes ==
  { [kind |-> "ok", text |-> "alpha [1]"],
    [kind |-> "nochoices", text |-> "list index out of range"],
    [kind |-> "raise", text |-> "rate limit"] }

(* -------------------- GroqClient.generate_response --------------------- *)

NoInfoAnswerLLM ==
  "I couldn't find any relevant information in the documents to answer your question."

\* the short-circuit response for empty contexts
EmptyResponse(model) ==
  [answer |-> NoInfoAnswerLLM,
   sources |-> <<>>,
   model |-> model,
   num_contexts_used |-> 0,
   avg_similarity |-> Zero]

\* str(page) inside the f-string
Str(v) == v.text

\* "{similarity:.1%}": hundredths h render as "h.0%"
PercentFmt(h) == [whole |-> h, tenths |-> 0]

\* one "[i] (Source: .., Page: .., Relevance: ..)\ncontent" block
FormatContext(i, ctx) ==
  [marker |-> i,
   source |-> Get(ctx.metadata, "source_file", "Unknown"),
   page |-> Str(Get(ctx.metadata, "page", PyStr("N/A"))),
   relevance |-> PercentFmt(Get(ctx, "similarity_score", 0)),
   content |-> ctx.content]

\* formatted_contexts: enumerate(contexts, 1)
FormatContexts(contexts) ==
  [i \in 1..Len(contexts) |-> FormatContext(i, contexts[i])]

\* the prompt template around context_text and the query
RenderPrompt(query, contexts) ==
  [instructions |-> "Cite sources using [1], [2], [3] format",
   context_text |-> FormatContexts(contexts),
   question |-> query]

NoPrompt == [instructions |-> "", context_text |-> <<>>, question |-> None]

\* variant: the enumerate index is used as the id without the + 1
SourcesZeroBased(contexts) ==
  [i \in 1..Len(contexts) |->
     [id |-> i - 1,
      file |-> Get(contexts[i].metadata, "source_file", "Unknown"),
      page |-> Get(contexts[i].metadata, "page", PyStr("N/A")),
      similarity |-> Get(contexts[i], "similarity_score", 0)]]

\* the sources list: enumerate(contexts) with id i + 1
Sources(contexts) ==
  [i \in 1..Len(contexts) |->
     [id |-> (i - 1) + 1,
      file |-> Get(contexts[i].metadata, "source_file", "Unknown"),
      page |-> Get(contexts[i].metadata, "page", PyStr("N/A")),
      similarity |-> Get(contexts[i], "similarity_score", 0)]]

\* variant: floor division (//) instead of true division
AvgSimilarityFloorDiv(sources) ==
  IF sources # <<>>
  THEN Frac(SumSeq([i \in 1..Len(sources) |-> sources[i].similarity])
              \div Len(sources), 1)
  ELSE Zero

\* sum(s['similarity'] for s in sources) / len(sources) if sources else 0.0
AvgSimilarity(sources) ==
  IF sources # <<>>
  THEN Frac(SumSeq([i \in 1..Len(sources) |-> sources[i].similarity]),
            Len(sources))
  ELSE Zero

\* variant: the number of contexts asked for (top_k) is reported
SuccessResponseTopK(answer, contexts, model) ==
  [answer |-> answer,
   sources |-> Sources(contexts),
   model |-> model,
   num_contexts_used |-> MaxContexts,
   avg_similarity |-> AvgSimilarity(Sources(contexts))]

\* the response after a successful completion call
SuccessResponse(answer, contexts, model) ==
  [answer |-> answer,
   sources |-> Sources(contexts),
   model |-> model,
   num_contexts_used |-> Len(contexts),
   avg_similarity |-> AvgSimilarity(Sources(contexts))]

\* the response built by the except branch
ErrorResponse(e, model) ==
  [answer |-> "Error generating response: " \o e,
   sources |-> <<>>,
   model |-> model,
   num_contexts_used |-> 0,
   avg_similarity |-> Zero]

(* --------------------------- RAGSystem.query --------------------------- *)

NoInfoAnswer == "I could not find relevant information to answer this question."

\* variant: query reuses the synthesizer's short-circuit response
NoContextsResponseFromLLM(question) ==
  SetKey(EmptyResponse(DefaultModel), "question", question)

\* the response query builds itself when the retriever returns nothing
NoContextsResponse(question) ==
  [answer |-> NoInfoAnswer,
   sources |-> <<>>,
   num_contexts_used |-> 0,
   question |-> question]

\* variant: only the retrieved contexts are merged into the response
MergeQueryContextsOnly(response, question, contexts) ==
  SetKey(response, "retrieved_contexts", contexts)

\* response['question'] = question; response['retrieved_contexts'] = contexts
MergeQuery(response, question, contexts) ==
  SetKey(SetKey(response, "question", question), "retrieved_contexts", contexts)

\* the entry appended to conversation_history
HistoryEntry(question, response) ==
  [question |-> question,
   answer |-> Get(response, "answer", None),
   sources |-> Get(response, "sources", <<>>),
   num_contexts |-> Get(response, "num_contexts_used", 0)]

(* ------------------------------- state --------------------------------- *)

VARIABLES
  conversation_history,  \* RAGSystem.conversation_history
  pc,         \* per caller: position of its current call
  via,        \* per caller: "query" or "generate" (the entry point called)
  question,   \* per caller: the question argument
  contexts,   \* per caller: the contexts local / argument
  prompt,     \* per caller: the prompt sent to the completion service
  retrieval,  \* per caller: what retriever.retrieve did, or None
  calls,      \* per caller: completion-service invocations of this call
  completion, \* per caller: what the completion service did, or None
  response,   \* per caller: the dict returned to the caller
  error       \* per caller: the exception that reached the caller, or None

\* the conversation store of RAGSystemSaver (src/saver.py), one store name
VARIABLES
  clock,          \* the store's CURRENT_TIMESTAMP, in seconds
  db_exists,      \* <name>_conversations.db is on disk
  conversations,  \* committed rows of table conversations, in rowid order
  sources,        \* committed rows of table sources, in rowid order
  config_saved,   \* <name>_config.json is on disk
  save_pc,        \* position of the save_conversations_sqlite in progress
  save_i,         \* index of the log entry the save loop is at
  save_j,         \* index of the source the inner loop is at
  txn,            \* rows inserted on the writer's connection, not committed
  rd_pc,          \* position of the reader's load_conversations_sqlite
  rd_rows,        \* conversations rows the reader has fetched
  rd_out,         \* the results list the reader has built so far
  result,         \* what the read operation that just ended handed to its
                  \* caller, NoResult after any other step
  stats,          \* what the last get_stats() returned
  log_queries,    \* the numbers of the queries completed since the log was
                  \* last cleared, in order of completion
  row_queries,    \* per conversations row, the number of the query it records
  queries_done,   \* completed queries so far
  logref          \* per caller: the list object its append is bound to

callVars == <<pc, via, question, contexts, prompt, retrieval, calls,
              completion, response, error>>

dbVars == <<clock, db_exists, conversations, sources, config_saved>>

saveVars == <<save_pc, save_i, save_j, txn>>

readVars == <<rd_pc, rd_rows, rd_out, result>>

\* a load_conversations_sqlite in progress
loadVars == <<rd_pc, rd_rows, rd_out>>

ghostVars == <<log_queries, row_queries, queries_done>>

\* everything outside the query pipeline of one caller
otherVars == <<dbVars, saveVars, readVars, stats, ghostVars, logref>>

vars == <<conversation_history, callVars, otherVars>>

NoCompletion == [kind |-> None, text |-> None]

\* a connection with nothing inserted
NoTxn ==
  [conversations |-> <<>>, sources |-> <<>>, queries |-> <<>>, session_id |-> 0]

NoResult == [op |-> None]

\* no store on disk, nothing in progress
InitStore ==
  /\ clock = 0
  /\ db_exists = FALSE
  /\ conversations = <<>>
  /\ sources = <<>>
  /\ config_saved = FALSE
  /\ save_pc = "idle"
  /\ save_i = 0
  /\ save_j = 0
  /\ txn = NoTxn
  /\ rd_pc = "idle"
  /\ rd_rows = <<>>
  /\ rd_out = <<>>
  /\ result = NoResult
  /\ stats = NoResult
  /\ log_queries = <<>>
  /\ row_queries = <<>>
  /\ queries_done = 0

\* the state after RAGSystem.__init__ for the callers in T
InitCallers(T) ==
  /\ conversation_history = <<>>
  /\ pc = [t \in T |-> "idle"]
  /\ via = [t \in T |-> None]
  /\ question = [t \in T |-> None]
  /\ contexts = [t \in T |-> <<>>]
  /\ prompt = [t \in T |-> NoPrompt]
  /\ retrieval = [t \in T |-> None]
  /\ calls = [t \in T |-> 0]
  /\ completion = [t \in T |-> NoCompletion]
  /\ response = [t \in T |-> EmptyDict]
  /\ error = [t \in T |-> None]
  /\ logref = [t \in T |-> None]

Init ==
  /\ InitCallers(Threads)
  /\ InitStore

\* the caller is between calls
AtRest(t) == pc[t] \in {"idle", "returned", "raised", "abandoned"}

\* the locals of a fresh call; exc is the exception it ends with at once,
\* or None
Enter(t, entry, q, exc) ==
  /\ via' = [via EXCEPT ![t] = entry]
  /\ question' = [question EXCEPT ![t] = q]
  /\ prompt' = [prompt EXCEPT ![t] = NoPrompt]
  /\ calls' = [calls EXCEPT ![t] = 0]
  /\ completion' = [completion EXCEPT ![t] = NoCompletion]
  /\ response' = [response EXCEPT ![t] = EmptyDict]
  /\ error' = [error EXCEPT ![t] = exc]

\* query: retriever.retrieve returns a (possibly empty) list of contexts
QueryRetrieve(t, q, ctxs) ==
  /\ AtRest(t)
  /\ Len(conversation_history) < MaxHistory
  /\ Enter(t, "query", q, None)
  /\ contexts' = [contexts EXCEPT ![t] = ctxs]
  /\ retrieval' = [retrieval EXCEPT ![t] = "ok"]
  /\ pc' = [pc EXCEPT ![t] = "retrieved"]
  /\ UNCHANGED conversation_history
  /\ UNCHANGED otherVars

\* variant: query catches the retriever's exception and goes on with no
\* contexts
QueryRetrieveSwallows(t, q) ==
  /\ AtRest(t)
  /\ Len(conversation_history) < MaxHistory
  /\ Enter(t, "query", q, None)
  /\ contexts' = [contexts EXCEPT ![t] = <<>>]
  /\ retrieval' = [retrieval EXCEPT ![t] = "raise"]
  /\ pc' = [pc EXCEPT ![t] = "retrieved"]
  /\ UNCHANGED conversation_history
  /\ UNCHANGED otherVars

\* query: retriever.retrieve raises; nothing in query catches it
QueryRetrieveRaises(t, q) ==
  /\ AtRest(t)
  /\ Len(conversation_history) < MaxHistory
  /\ Enter(t, "query", q, "RetrievalUnavailable")
  /\ contexts' = [contexts EXCEPT ![t] = <<>>]
  /\ retrieval' = [retrieval EXCEPT ![t] = "raise"]
  /\ pc' = [pc EXCEPT ![t] = "raised"]
  /\ UNCHANGED conversation_history
  /\ UNCHANGED otherVars

\* variant: only exchanges that cite sources are tracked
RecordIfSources(t, resp) ==
  /\ conversation_history' =
       IF Get(resp, "sources", <<>>) # <<>>
       THEN Append(conversation_history, HistoryEntry(question[t], resp))
       ELSE conversation_history
  /\ response' = [response EXCEPT ![t] = resp]
  /\ pc' = [pc EXCEPT ![t] = "returned"]

\* query: track the conversation and return the response
Record(t, resp) ==
  /\ conversation_history' =
       Append(conversation_history, HistoryEntry(question[t], resp))
  /\ response' = [response EXCEPT ![t] = resp]
  /\ pc' = [pc EXCEPT ![t] = "returned"]

\* query: the "if not contexts" branch, then record and return
QueryNoContexts(t) ==
  /\ pc[t] = "retrieved"
  /\ contexts[t] = <<>>
  /\ Record(t, NoContextsResponse(question[t]))
  /\ UNCHANGED <<via, question, contexts, prompt, retrieval, calls, completion,
                 error>>
  /\ UNCHANGED otherVars

\* generate_response up to the completion call: the prompt is rendered and
\* client.chat.completions.create is invoked
Invoke(t) ==
  /\ prompt' = [prompt EXCEPT ![t] = RenderPrompt(question[t], contexts[t])]
  /\ calls' = [calls EXCEPT ![t] = calls[t] + 1]
  /\ pc' = [pc EXCEPT ![t] = "completing"]

\* query: the else branch calls llm_client.generate_response
QueryGenerate(t) ==
  /\ pc[t] = "retrieved"
  /\ contexts[t] # <<>>
  /\ Invoke(t)
  /\ UNCHANGED <<conversation_history, via, question, contexts, retrieval,
                 completion, response, error>>
  /\ UNCHANGED otherVars

\* a direct call of generate_response(query, contexts)
Generate(t, q, ctxs) ==
  /\ AtRest(t)
  /\ Enter(t, "generate", q, None)
  /\ contexts' = [contexts EXCEPT ![t] = ctxs]
  /\ retrieval' = [retrieval EXCEPT ![t] = None]
  /\ pc' = [pc EXCEPT ![t] = "generating"]
  /\ UNCHANGED conversation_history
  /\ UNCHANGED otherVars

\* variant: no short-circuit, the prompt is sent with no context blocks
GenerateEmptyInvokes(t) ==
  /\ pc[t] = "generating"
  /\ contexts[t] = <<>>
  /\ Invoke(t)
  /\ UNCHANGED <<conversation_history, via, question, contexts, retrieval,
                 completion, response, error>>
  /\ UNCHANGED otherVars

\* generate_response: "if not contexts" returns without a completion call
GenerateEmpty(t) ==
  /\ pc[t] = "generating"
  /\ contexts[t] = <<>>
  /\ response' = [response EXCEPT ![t] = EmptyResponse(DefaultModel)]
  /\ pc' = [pc EXCEPT ![t] = "returned"]
  /\ UNCHANGED <<conversation_history, via, question, contexts, prompt,
                 retrieval, calls, completion, error>>
  /\ UNCHANGED otherVars

\* generate_response: non-empty contexts, render the prompt and invoke
GenerateInvoke(t) ==
  /\ pc[t] = "generating"
  /\ contexts[t] # <<>>
  /\ Invoke(t)
  /\ UNCHANGED <<conversation_history, via, question, contexts, retrieval,
                 completion, response, error>>
  /\ UNCHANGED otherVars

\* what generate_response returns for an outcome of the completion call:
\* response.choices[0].message.content on success, the except branch when
\* the call raised or choices[0] raised IndexError
Outcome(o, ctxs) ==
  IF o.kind = "ok"
  THEN SuccessResponse(o.text, ctxs, DefaultModel)
  ELSE ErrorResponse(o.text, DefaultModel)

\* generate_response returns to its caller; called from query, query merges
\* the question and contexts, records the exchange and returns
Deliver(t, resp) ==
  IF via[t] = "query"
  THEN Record(t, MergeQuery(resp, question[t], contexts[t]))
  ELSE /\ response' = [response EXCEPT ![t] = resp]
       /\ pc' = [pc EXCEPT ![t] = "returned"]
       /\ UNCHANGED conversation_history

\* variant: the except branch logs and re-raises
CompleteReraises(t, o) ==
  /\ pc[t] = "completing"
  /\ completion' = [completion EXCEPT ![t] = o]
  /\ IF o.kind = "ok"
     THEN /\ Deliver(t, Outcome(o, contexts[t]))
          /\ UNCHANGED error
     ELSE /\ pc' = [pc EXCEPT ![t] = "raised"]
          /\ error' = [error EXCEPT ![t] = o.text]
          /\ UNCHANGED <<conversation_history, response>>
  /\ UNCHANGED <<via, question, contexts, prompt, retrieval, calls>>
  /\ UNCHANGED otherVars

\* the completion call ends with outcome o
Complete(t, o) ==
  /\ pc[t] = "completing"
  /\ completion' = [completion EXCEPT ![t] = o]
  /\ Deliver(t, Outcome(o, contexts[t]))
  /\ UNCHANGED <<via, question, contexts, prompt, retrieval, calls, error>>
  /\ UNCHANGED otherVars

\* the call is cancelled while it waits (the thread is stopped, or a
\* BaseException such as KeyboardInterrupt passes "except Exception")
Abandon(t) ==
  /\ pc[t] \in {"retrieved", "generating", "completing"}
  /\ pc' = [pc EXCEPT ![t] = "abandoned"]
  /\ UNCHANGED <<conversation_history, via, question, contexts, prompt,
                 retrieval, calls, completion, response, error>>
  /\ UNCHANGED otherVars

Next ==
  \E t \in Threads :
    \/ \E q \in Questions, ctxs \in ContextLists : QueryRetrieve(t, q, ctxs)
    \/ \E q \in Questions : QueryRetrieveRaises(t, q)
    \/ QueryNoContexts(t)
    \/ QueryGenerate(t)
    \/ \E q \in Questions, ctxs \in ContextLists : Generate(t, q, ctxs)
    \/ GenerateEmpty(t)
    \/ GenerateInvoke(t)
    \/ \E o \in CompletionOutcomes : Complete(t, o)
    \/ Abandon(t)

Spec == Init /\ [][Next]_vars

(* ---------------- RAGSystem: one session, call by call ----------------- *)

\* the session thread is not inside save_conversations_sqlite
SessionFree == save_pc = "idle"

\* the response of a whole query(question) call in which the retriever
\* returned ctxs and the completion service did o
QueryResponse(q, ctxs, o) ==
  IF ctxs = <<>>
  THEN NoContextsResponse(q)
  ELSE MergeQuery(Outcome(o, ctxs), q, ctxs)

\* a whole RAGSystem.query call of the session
Ask(q, ctxs, o) ==
  /\ SessionFree
  /\ queries_done < MaxHistory
  /\ conversation_history' =
       Append(conversation_history, HistoryEntry(q, QueryResponse(q, ctxs, o)))
  /\ log_queries' = Append(log_queries, queries_done + 1)
  /\ queries_done' = queries_done + 1
  /\ result' = NoResult
  /\ UNCHANGED <<callVars, dbVars, saveVars, loadVars, stats, row_queries,
                 logref>>

\* RAGSystem.clear_history
ClearHistory ==
  /\ SessionFree
  /\ conversation_history' = <<>>
  /\ log_queries' = <<>>
  /\ result' = NoResult
  /\ UNCHANGED <<callVars, dbVars, saveVars, loadVars, stats, row_queries,
                 queries_done, logref>>

\* variant: floor division (//) in the average
GetStatsResultFloorDiv(history) ==
  IF history = <<>>
  THEN [total_queries |-> 0,
        total_contexts_retrieved |-> 0,
        avg_contexts_per_query |-> Zero]
  ELSE LET total_contexts ==
             SumSeq([i \in 1..Len(history) |-> history[i].num_contexts])
       IN [total_queries |-> Len(history),
           total_contexts_retrieved |-> total_contexts,
           avg_contexts_per_query |->
             Frac(total_contexts \div Len(history), 1)]

\* the dict RAGSystem.get_stats returns for a log
GetStatsResult(history) ==
  IF history = <<>>
  THEN [total_queries |-> 0,
        total_contexts_retrieved |-> 0,
        avg_contexts_per_query |-> Zero]
  ELSE LET total_contexts ==
             SumSeq([i \in 1..Len(history) |-> history[i].num_contexts])
       IN [total_queries |-> Len(history),
           total_contexts_retrieved |-> total_contexts,
           avg_contexts_per_query |-> Frac(total_contexts, Len(history))]

\* RAGSystem.get_stats
GetStats ==
  /\ SessionFree
  /\ stats' = SetKey(GetStatsResult(conversation_history), "op", "get_stats")
  /\ result' = NoResult
  /\ UNCHANGED <<conversation_history, callVars, dbVars, saveVars, loadVars,
                 ghostVars, logref>>

\* the inputs of a whole query call
AskAny ==
  \E q \in Questions, ctxs \in ContextLists, o \in CompletionOutcomes :
    Ask(q, ctxs, o)

NextSession ==
  \/ AskAny
  \/ ClearHistory
  \/ GetStats

\* one session that asks, clears its history and reads its statistics
SpecSession == Init /\ [][NextSession]_vars

(* ------------------ RAGSystemSaver: writing the store ------------------ *)

\* Python None where a page or a file is expected
PyNone == [kind |-> "none", text |-> "None"]

\* what a column with TEXT affinity stores: an integer becomes its text
TextAffinity(v) == IF v.kind = "int" THEN PyStr(v.text) ELSE v

\* avg_similarity as computed at write time from the entry's sources
SaveAvgSimilarity(conv) ==
  LET similarity_scores ==
        [i \in 1..Len(Get(conv, "sources", <<>>)) |->
           Get(conv.sources[i], "similarity", 0)]
  IN IF similarity_scores # <<>>
     THEN Frac(SumSeq(similarity_scores), Len(similarity_scores))
     ELSE Zero

\* the row INSERT INTO conversations writes for a log entry
ConversationRow(id, conv, session_id, now) ==
  [id |-> id,
   created_at |-> now,
   question |-> conv.question,
   answer |-> conv.answer,
   num_contexts |-> conv.num_contexts,
   avg_similarity |-> SaveAvgSimilarity(conv),
   model_used |-> "llama-3.3-70b-versatile",
   session_id |-> session_id]

\* the row INSERT INTO sources writes for one source of an entry
SourceRow(id, conv_id, source) ==
  [id |-> id,
   conversation_id |-> conv_id,
   source_file |-> Get(source, "file", None),
   page |-> TextAffinity(Get(source, "page", PyNone)),
   similarity |-> Get(source, "similarity", None)]

\* cursor.lastrowid after the INSERT INTO conversations
LastConversationId == Len(conversations) + Len(txn.conversations)

\* the transaction moves on past source j of entry i
Advance(i, j) ==
  IF j >= Len(conversation_history[i].sources)
  THEN /\ save_i' = i + 1
       /\ save_j' = 0
  ELSE /\ save_i' = i
       /\ save_j' = j + 1

\* save_conversations_sqlite: _init_sqlite_db creates and commits the schema,
\* then a second connection is opened and the session id is fixed
SaveBegin ==
  /\ SessionFree
  /\ Len(conversations) + Len(conversation_history) <= MaxRows
  /\ db_exists' = TRUE
  /\ save_pc' = "inserting"
  /\ save_i' = 1
  /\ save_j' = 0
  /\ txn' = [NoTxn EXCEPT !.session_id = clock]
  /\ result' = NoResult
  /\ UNCHANGED <<conversation_history, callVars, clock, conversations,
                 sources, config_saved, loadVars, stats, ghostVars, logref>>

\* variant: every INSERT is committed on its own
SaveInsertConversationAutocommit ==
  /\ save_pc = "inserting"
  /\ save_i <= Len(conversation_history)
  /\ save_j = 0
  /\ conversations' =
       Append(conversations,
              ConversationRow(LastConversationId + 1,
                              conversation_history[save_i],
                              txn.session_id, clock))
  /\ row_queries' = Append(row_queries, log_queries[save_i])
  /\ Advance(save_i, 0)
  /\ result' = NoResult
  /\ UNCHANGED <<conversation_history, callVars, clock, db_exists, sources,
                 config_saved, save_pc, txn, loadVars, stats, log_queries,
                 queries_done, logref>>

\* the loop body up to conv_id = cursor.lastrowid: the INSERT opens the
\* connection's transaction if none is open and adds the row to it
SaveInsertConversation ==
  /\ save_pc = "inserting"
  /\ save_i <= Len(conversation_history)
  /\ save_j = 0
  /\ txn' = [txn EXCEPT
       !.conversations =
          Append(@, ConversationRow(LastConversationId + 1,
                                    conversation_history[save_i],
                                    txn.session_id, clock)),
       !.queries = Append(@, log_queries[save_i])]
  /\ Advance(save_i, 0)
  /\ result' = NoResult
  /\ UNCHANGED <<conversation_history, callVars, dbVars, save_pc, loadVars,
                 stats, ghostVars, logref>>

\* the inner loop: one INSERT INTO sources
SaveInsertSource ==
  /\ save_pc = "inserting"
  /\ save_j >= 1
  /\ txn' = [txn EXCEPT
       !.sources =
          Append(@, SourceRow(Len(sources) + Len(txn.sources) + 1,
                              LastConversationId,
                              conversation_history[save_i].sources[save_j]))]
  /\ Advance(save_i, save_j)
  /\ result' = NoResult
  /\ UNCHANGED <<conversation_history, callVars, dbVars, save_pc, loadVars,
                 stats, ghostVars, logref>>

\* conn.commit() after the loop: all rows of the save become visible at once
SaveCommit ==
  /\ save_pc = "inserting"
  /\ save_i > Len(conversation_history)
  /\ conversations' = conversations \o txn.conversations
  /\ sources' = sources \o txn.sources
  /\ row_queries' = row_queries \o txn.queries
  /\ txn' = NoTxn
  /\ save_pc' = "idle"
  /\ save_i' = 0
  /\ save_j' = 0
  /\ result' = NoResult
  /\ UNCHANGED <<conversation_history, callVars, clock, db_exists,
                 config_saved, loadVars, stats, log_queries, queries_done,
                 logref>>

\* an execute or the commit raises: the exception leaves the method, the
\* connection is dropped without commit and its transaction is rolled back
SaveFails ==
  /\ save_pc = "inserting"
  /\ txn' = NoTxn
  /\ save_pc' = "idle"
  /\ save_i' = 0
  /\ save_j' = 0
  /\ result' = NoResult
  /\ UNCHANGED <<conversation_history, callVars, dbVars, loadVars, stats,
                 ghostVars, logref>>

\* a second passes
Tick ==
  /\ clock < MaxClock
  /\ clock' = clock + 1
  /\ result' = NoResult
  /\ UNCHANGED <<conversation_history, callVars, db_exists, conversations,
                 sources, config_saved, saveVars, loadVars, stats, ghostVars,
                 logref>>

(* ------------------ RAGSystemSaver: reading the store ------------------ *)

UpperCase == "ABCDEFGHIJKLMNOPQRSTUVWXYZ"

LowerCase == "abcdefghijklmnopqrstuvwxyz"

\* the ASCII case folding of LIKE, as a table from upper-case letters
FoldCase ==
  [c \in {SubSeq(UpperCase, i, i) : i \in 1..26} |->
     LET i == CHOOSE k \in 1..26 : SubSeq(UpperCase, k, k) = c
     IN SubSeq(LowerCase, i, i)] @@ <<>>

\* the ASCII case folding LIKE applies to one character
LowerChar(c) == IF c \in DOMAIN FoldCase THEN FoldCase[c] ELSE c

\* the character of str at position i
CharAt(str, i) == SubSeq(str, i, i)

\* column LIKE '%text%' for a text without wildcards: text occurs in column
\* at some position, ASCII case ignored
LikePattern(column, text) ==
  \E i \in 0..(Len(column) - Len(text)) :
    \A k \in 1..Len(text) :
      LowerChar(CharAt(column, i + k)) = LowerChar(CharAt(text, k))

\* column LIKE ? with the parameter '%text%'
Like(column, text) == LikePattern(column, text)

\* float comparison a >= h for a fraction a and hundredths h
AtLeast(a, h) == a.num >= h * a.den

\* the orders "ORDER BY created_at DESC LIMIT limit" can give for rows: any
\* order of all rows with created_at non-increasing, cut at limit
RecentFirst(rows, limit) ==
  LET n == Len(rows)
      k == IF limit < n THEN limit ELSE n
      orders == {p \in [1..n -> 1..n] :
                   /\ \A i, j \in 1..n : i # j => p[i] # p[j]
                   /\ \A i, j \in 1..n :
                        i < j => rows[p[i]].created_at >= rows[p[j]].created_at}
  IN {[i \in 1..k |-> rows[p[i]]] : p \in orders}

\* load_conversations_sqlite on a name without database file
LoadMissing(limit) ==
  /\ rd_pc = "idle"
  /\ ~db_exists
  /\ result' = [op |-> "load", value |-> <<>>]
  /\ UNCHANGED <<conversation_history, callVars, dbVars, saveVars, loadVars,
                 stats, ghostVars, logref>>

\* load_conversations_sqlite: the SELECT over conversations
LoadSelect(limit) ==
  /\ rd_pc = "idle"
  /\ db_exists
  /\ \E rows \in RecentFirst(conversations, limit) : rd_rows' = rows
  /\ rd_pc' = "sources"
  /\ rd_out' = <<>>
  /\ result' = NoResult
  /\ UNCHANGED <<conversation_history, callVars, dbVars, saveVars, stats,
                 ghostVars, logref>>

\* the dict load_conversations_sqlite builds for a row and its sources rows
LoadedConversation(conv, srcs) ==
  [id |-> conv.id,
   question |-> conv.question,
   answer |-> conv.answer,
   num_contexts |-> conv.num_contexts,
   avg_similarity |-> conv.avg_similarity,
   created_at |-> conv.created_at,
   sources |-> [i \in 1..Len(srcs) |->
                  [file |-> srcs[i].source_file,
                   page |-> srcs[i].page,
                   similarity |-> srcs[i].similarity]]]

\* load_conversations_sqlite: the SELECT over sources for the next fetched
\* conversation (a statement of its own, it sees what is committed by then)
LoadSources ==
  /\ rd_pc = "sources"
  /\ Len(rd_out) < Len(rd_rows)
  /\ LET conv == rd_rows[Len(rd_out) + 1]
         Mine(s) == s.conversation_id = conv.id
     IN rd_out' =
          Append(rd_out, LoadedConversation(conv, SelectSeq(sources, Mine)))
  /\ result' = NoResult
  /\ UNCHANGED <<conversation_history, callVars, dbVars, saveVars, rd_pc,
                 rd_rows, stats, ghostVars, logref>>

\* load_conversations_sqlite returns its results
LoadReturn ==
  /\ rd_pc = "sources"
  /\ Len(rd_out) = Len(rd_rows)
  /\ result' = [op |-> "load", value |-> rd_out]
  /\ rd_pc' = "idle"
  /\ rd_rows' = <<>>
  /\ rd_out' = <<>>
  /\ UNCHANGED <<conversation_history, callVars, dbVars, saveVars, stats,
                 ghostVars, logref>>

\* WHERE question LIKE ? OR answer LIKE ? AND avg_similarity >= ?
\* (AND binds tighter than OR)
SearchWhere(row, query_text, min_similarity) ==
  \/ Like(row.question, query_text)
  \/ /\ Like(row.answer, query_text)
     /\ AtLeast(row.avg_similarity, min_similarity)

\* search_conversations on a name without database file
SearchMissing(query_text, min_similarity) ==
  /\ rd_pc = "idle"
  /\ ~db_exists
  /\ result' = [op |-> "search", text |-> query_text,
                 min |-> min_similarity, value |-> <<>>]
  /\ UNCHANGED <<conversation_history, callVars, dbVars, saveVars, loadVars,
                 stats, ghostVars, logref>>

\* search_conversations: the SELECT and fetchall
Search(query_text, min_similarity) ==
  /\ rd_pc = "idle"
  /\ db_exists
  /\ LET Match(row) == SearchWhere(row, query_text, min_similarity)
     IN \E found \in {SelectSeq(conversations, Match)} :
          \E rows \in RecentFirst(found, Len(found)) :
            result' = [op |-> "search", text |-> query_text,
                       min |-> min_similarity, value |-> rows]
  /\ UNCHANGED <<conversation_history, callVars, dbVars, saveVars, loadVars,
                 stats, ghostVars, logref>>

\* n / d rounded to the nearest integer, halves to even (round())
RoundHalfEven(n, d) ==
  LET q == n \div d
      r == n % d
  IN IF 2 * r > d \/ (2 * r = d /\ q % 2 = 1) THEN q + 1 ELSE q

AddFrac(a, b) == Frac(a.num * b.den + b.num * a.den, a.den * b.den)

RECURSIVE SumFrac(_)
SumFrac(fs) == IF fs = <<>> THEN Zero ELSE AddFrac(Head(fs), SumFrac(Tail(fs)))

\* the orders "GROUP BY source_file ORDER BY count DESC LIMIT 5" can give
TopSources(rows) ==
  LET files == {rows[i].source_file : i \in 1..Len(rows)}
      Count(f) == Cardinality({i \in 1..Len(rows) : rows[i].source_file = f})
      n == Cardinality(files)
      k == IF n > 5 THEN 5 ELSE n
      orders == {p \in [1..n -> files] :
                   /\ \A i, j \in 1..n : i # j => p[i] # p[j]
                   /\ \A i, j \in 1..n : i < j => Count(p[i]) >= Count(p[j])}
  IN {[i \in 1..k |-> [file |-> p[i], count |-> Count(p[i])]] : p \in orders}

\* the dict get_sqlite_stats returns: the average similarity in thousandths
\* (round(.., 3)), the average contexts in hundredths (round(.., 2))
SqliteStatsResult(top) ==
  LET n == Len(conversations)
      sims == SumFrac([i \in 1..n |-> conversations[i].avg_similarity])
      ctxs == SumSeq([i \in 1..n |-> conversations[i].num_contexts])
  IN [total_conversations |-> n,
      avg_similarity_score |->
        IF n = 0 THEN 0 ELSE RoundHalfEven(10 * sims.num, sims.den * n),
      avg_contexts_per_query |->
        IF n = 0 THEN 0 ELSE RoundHalfEven(100 * ctxs, n),
      top_sources |-> top]

\* get_sqlite_stats
SqliteStats ==
  /\ rd_pc = "idle"
  /\ IF ~db_exists
     THEN result' = [op |-> "stats", value |-> EmptyDict]
     ELSE \E top \in TopSources(sources) :
            result' = [op |-> "stats", value |-> SqliteStatsResult(top)]
  /\ UNCHANGED <<conversation_history, callVars, dbVars, saveVars, loadVars,
                 stats, ghostVars, logref>>

\* save_config_json writes <name>_config.json
SaveConfig ==
  /\ SessionFree
  /\ config_saved' = TRUE
  /\ result' = NoResult
  /\ UNCHANGED <<conversation_history, callVars, clock, db_exists,
                 conversations, sources, saveVars, loadVars, stats, ghostVars,
                 logref>>

\* the snapshot save_config_json writes, as far as it is fixed by the code
ConfigSnapshot ==
  [name |-> "default",
   llm |-> [provider |-> "groq", default_model |-> "llama-3.3-70b-versatile"]]

\* variant: a missing snapshot is read as an empty configuration
LoadConfigEmpty ==
  /\ rd_pc = "idle"
  /\ result' = IF config_saved
               THEN [op |-> "load_config", raised |-> None,
                     value |-> ConfigSnapshot]
               ELSE [op |-> "load_config", raised |-> None,
                     value |-> EmptyDict]
  /\ UNCHANGED <<conversation_history, callVars, dbVars, saveVars, loadVars,
                 stats, ghostVars, logref>>

\* load_config_json: open() raises FileNotFoundError when there is no file
LoadConfig ==
  /\ rd_pc = "idle"
  /\ result' = IF config_saved
               THEN [op |-> "load_config", raised |-> None,
                     value |-> ConfigSnapshot]
               ELSE [op |-> "load_config", raised |-> "FileNotFoundError",
                     value |-> EmptyDict]
  /\ UNCHANGED <<conversation_history, callVars, dbVars, saveVars, loadVars,
                 stats, ghostVars, logref>>

\* the session that asks, clears and saves
NextWriter ==
  \/ AskAny
  \/ ClearHistory
  \/ SaveBegin
  \/ SaveInsertConversation
  \/ SaveInsertSource
  \/ SaveCommit
  \/ SaveFails
  \/ Tick

NextStore ==
  \/ NextWriter
  \/ \E limit \in Limits : LoadMissing(limit)
  \/ \E limit \in Limits : LoadSelect(limit)
  \/ LoadSources
  \/ LoadReturn

\* one session that asks and saves, and a reader that loads from the store
SpecStore == Init /\ [][NextStore]_vars

NextSearch ==
  \/ NextWriter
  \/ \E text \in SearchTexts, min \in MinSimilarities :
       SearchMissing(text, min)
  \/ \E text \in SearchTexts, min \in MinSimilarities : Search(text, min)

\* one session that asks and saves, and a reader that searches the store
SpecSearch == Init /\ [][NextSearch]_vars

NextReads ==
  \/ NextWriter
  \/ \E limit \in Limits : LoadMissing(limit)
  \/ \E text \in SearchTexts, min \in MinSimilarities :
       SearchMissing(text, min)
  \/ SqliteStats
  \/ SaveConfig
  \/ LoadConfig

\* one session that asks and saves, a reader of a store that may not exist
\* yet, and the configuration snapshot
SpecReads == Init /\ [][NextReads]_vars

(* --------------- RAGSystem: callers on several threads ---------------- *)

\* the threads that call into one RAGSystem instance
Callers == {"main", "worker"}

\* queries begun so far: those that returned and those about to append
QueriesBegun ==
  queries_done + Cardinality({t \in Callers : pc[t] = "tracking"})

\* query on thread t up to the attribute load of
\* self.conversation_history.append(...): the response is built and the
\* reference to the list bound to the attribute is on the thread's stack,
\* before the argument dict is built and append is called
QueryRespond(t, q, ctxs, o) ==
  /\ AtRest(t)
  /\ QueriesBegun < MaxHistory
  /\ via' = [via EXCEPT ![t] = "query"]
  /\ question' = [question EXCEPT ![t] = q]
  /\ contexts' = [contexts EXCEPT ![t] = ctxs]
  /\ response' = [response EXCEPT ![t] = QueryResponse(q, ctxs, o)]
  /\ logref' = [logref EXCEPT ![t] = "current"]
  /\ pc' = [pc EXCEPT ![t] = "tracking"]
  /\ UNCHANGED <<conversation_history, prompt, retrieval, calls, completion,
                 error, dbVars, saveVars, readVars, stats, ghostVars>>

\* query on thread t: list.append on the list object loaded before, then
\* return response; the entry reaches the log only if that object is still
\* the one bound to self.conversation_history
QueryAppend(t) ==
  /\ pc[t] = "tracking"
  /\ conversation_history' =
       IF logref[t] = "current"
       THEN Append(conversation_history,
                   HistoryEntry(question[t], response[t]))
       ELSE conversation_history
  /\ logref' = [logref EXCEPT ![t] = None]
  /\ pc' = [pc EXCEPT ![t] = "returned"]
  /\ log_queries' = Append(log_queries, queries_done + 1)
  /\ queries_done' = queries_done + 1
  /\ UNCHANGED <<via, question, contexts, prompt, retrieval, calls,
                 completion, response, error, dbVars, saveVars, readVars,
                 stats, row_queries>>

\* clear_history on thread t binds a new empty list to the attribute; a
\* reference loaded before now points to the list that was replaced
ClearHistoryBy(t) ==
  /\ AtRest(t)
  /\ conversation_history' = <<>>
  /\ logref' = [u \in Callers |->
                  IF logref[u] = "current" THEN "stale" ELSE logref[u]]
  /\ log_queries' = <<>>
  /\ UNCHANGED <<callVars, dbVars, saveVars, readVars, stats, row_queries,
                 queries_done>>

NextConcurrent ==
  \E t \in Callers :
    \/ \E q \in Questions, ctxs \in ContextLists, o \in CompletionOutcomes :
         QueryRespond(t, q, ctxs, o)
    \/ QueryAppend(t)
    \/ ClearHistoryBy(t)

InitConcurrent ==
  /\ InitCallers(Callers)
  /\ InitStore

\* two threads that call query and clear_history on one instance
SpecConcurrent == InitConcurrent /\ [][NextConcurrent]_vars

(* ------------------------------ properties ----------------------------- *)

\* a step in which caller t's query returns its response
QueryReturns(t) ==
  /\ via[t] = "query"
  /\ pc[t] \in {"retrieved", "completing"}
  /\ pc'[t] = "returned"

\* the log entry that belongs to a response handed to the caller
EntryOf(q, resp) ==
  [question |-> q,
   answer |-> resp.answer,
   sources |-> resp.sources,
   num_contexts |-> resp.num_contexts_used]

\* C1: when the retriever returns zero contexts, query returns the fixed
\* no-information answer with empty sources and num_contexts_used 0, and
\* the conversation log gains exactly one entry.
C1_ZeroContexts ==
  [][\A t \in Threads :
       (QueryReturns(t) /\ contexts[t] = <<>>) =>
         /\ response'[t].answer =
              "I could not find relevant information to answer this question."
         /\ response'[t].sources = <<>>
         /\ response'[t].num_contexts_used = 0
         /\ Len(conversation_history') = Len(conversation_history) + 1]_vars

C1_Witness ==
  \E t \in Threads :
    /\ via[t] = "query"
    /\ pc[t] = "returned"
    /\ retrieval[t] = "ok"
    /\ contexts[t] = <<>>
    /\ Len(conversation_history) = 2

\* C2: every query that returns appends exactly one entry (question, answer,
\* sources, num_contexts) at the end of the log, on the zero-context, the
\* successful and the failed-generation branch alike, and no step of a query
\* changes or removes an earlier entry.
C2_AppendOnly ==
  [][\/ \E t \in Threads :
          /\ QueryReturns(t)
          /\ conversation_history' =
               Append(conversation_history,
                      EntryOf(question[t], response'[t]))
     \/ /\ \A t \in Threads : ~QueryReturns(t)
        /\ conversation_history' = conversation_history]_vars

C2_Witness ==
  /\ Len(conversation_history) = 2
  /\ conversation_history[1].answer = "Error generating response: rate limit"
  /\ conversation_history[2].sources = <<>>
  /\ conversation_history[2].answer # conversation_history[1].answer
  /\ \E t \in Threads : pc[t] = "returned" /\ via[t] = "query"

\* C3: generate_response with empty contexts returns num_contexts_used 0,
\* avg_similarity 0.0 and no sources without invoking the completion
\* service; with non-empty contexts it invokes the service exactly once.
C3_CompletionCalls ==
  \A t \in Threads :
    /\ (pc[t] = "returned" /\ via[t] = "generate" /\ contexts[t] = <<>>) =>
         /\ calls[t] = 0
         /\ response[t].num_contexts_used = 0
         /\ response[t].avg_similarity = Zero
         /\ response[t].sources = <<>>
    /\ (pc[t] = "returned" /\ contexts[t] # <<>>) => calls[t] = 1
    /\ calls[t] <= 1

C3_Witness ==
  \E t \in Threads :
    /\ pc[t] = "returned"
    /\ via[t] = "generate"
    /\ contexts[t] = <<>>
    /\ calls[t] = 0

\* the completion call of caller t's current call failed
GenerationFailed(t) == completion[t].kind \in {"raise", "nochoices"}

\* C4: for n input contexts the prompt carries the blocks [1]..[n] in input
\* order, and after a successful completion call sources has length n with
\* sources[i] numbered i (1-based) and holding the file, page and similarity
\* of the i-th input context.
C4_CitationOrder ==
  \A t \in Threads :
    LET ctxs == contexts[t]
        n == Len(ctxs)
    IN /\ (pc[t] = "completing" \/ (pc[t] = "returned" /\ calls[t] = 1)) =>
            /\ Len(prompt[t].context_text) = n
            /\ \A i \in 1..n :
                 /\ prompt[t].context_text[i].marker = i
                 /\ prompt[t].context_text[i].content = ctxs[i].content
                 /\ prompt[t].context_text[i].source =
                      Get(ctxs[i].metadata, "source_file", "Unknown")
       /\ (pc[t] = "returned" /\ completion[t].kind = "ok") =>
            /\ Len(response[t].sources) = n
            /\ \A i \in 1..n :
                 /\ response[t].sources[i].id = i
                 /\ response[t].sources[i].file =
                      Get(ctxs[i].metadata, "source_file", "Unknown")
                 /\ response[t].sources[i].page =
                      Get(ctxs[i].metadata, "page", PyStr("N/A"))
                 /\ response[t].sources[i].similarity =
                      Get(ctxs[i], "similarity_score", 0)

C4_Witness ==
  \E t \in Threads :
    /\ pc[t] = "returned"
    /\ completion[t].kind = "ok"
    /\ Len(contexts[t]) = 2
    /\ contexts[t][1] # contexts[t][2]

\* C5: in every response the synthesizer produces, avg_similarity is the
\* exact mean of the similarities of its sources, and 0.0 when it has none.
C5_ExactMean ==
  \A t \in Threads :
    (pc[t] = "returned" /\ (via[t] = "generate" \/ contexts[t] # <<>>)) =>
      LET srcs == response[t].sources
          avg == response[t].avg_similarity
      IN IF srcs = <<>>
         THEN avg = Zero
         ELSE /\ avg.den > 0
              /\ avg.num * Len(srcs) =
                   avg.den * SumSeq([i \in 1..Len(srcs) |-> srcs[i].similarity])

C5_Witness ==
  \E t \in Threads :
    /\ pc[t] = "returned"
    /\ Len(response[t].sources) = 2
    /\ response[t].avg_similarity = [num |-> 85, den |-> 2]

\* C6: when the completion call fails, generate_response raises nothing: the
\* caller gets a response with a non-empty answer that reports the failure,
\* no sources, num_contexts_used 0 and avg_similarity 0.0; query returns it
\* and records it as the newest entry of the conversation log.
C6_GenerationFailure ==
  \A t \in Threads :
    GenerationFailed(t) =>
      /\ pc[t] = "returned"
      /\ error[t] = None
      /\ response[t].answer # ""
      /\ response[t].answer = "Error generating response: " \o completion[t].text
      /\ response[t].sources = <<>>
      /\ response[t].num_contexts_used = 0
      /\ response[t].avg_similarity = Zero
      /\ via[t] = "query" =>
           /\ response[t].question = question[t]
           /\ conversation_history # <<>>
           /\ conversation_history[Len(conversation_history)] =
                [question |-> question[t],
                 answer |-> response[t].answer,
                 sources |-> <<>>,
                 num_contexts |-> 0]

C6_Witness ==
  \E t \in Threads :
    /\ via[t] = "query"
    /\ pc[t] = "returned"
    /\ completion[t].kind = "raise"
    /\ Len(conversation_history) = 2

\* C7: every response query returns has num_contexts_used = len(sources), on
\* the zero-context, the successful and the failed-generation path, and
\* every entry of the conversation log has num_contexts = len(sources).
C7_CountMatchesSources ==
  /\ \A t \in Threads :
       (pc[t] = "returned" /\ via[t] = "query") =>
         response[t].num_contexts_used = Len(response[t].sources)
  /\ \A i \in 1..Len(conversation_history) :
       conversation_history[i].num_contexts =
         Len(conversation_history[i].sources)

C7_Witness ==
  \E t \in Threads :
    /\ pc[t] = "returned"
    /\ via[t] = "query"
    /\ completion[t].kind = "ok"
    /\ Len(response[t].sources) = 1
    /\ Len(conversation_history) = 2
    /\ conversation_history[1].sources = <<>>

\* the fields of a Query Response
QueryResponseKeys ==
  {"question", "answer", "sources", "num_contexts_used", "avg_similarity"}

WellFormed(r) ==
  /\ QueryResponseKeys \subseteq DOMAIN r
  /\ r.sources = <<>> => r.avg_similarity = Zero

\* C8: every response query returns carries question, answer, sources,
\* num_contexts_used and avg_similarity, with avg_similarity 0 when sources
\* is empty.
C8_UniformShape ==
  \A t \in Threads :
    (pc[t] = "returned" /\ via[t] = "query") => WellFormed(response[t])

\* C9 as stated: for every failure of the retriever or of the completion
\* service, query returns a well-formed response and no exception reaches
\* the caller.
C9_NoExceptionEscapes ==
  \A t \in Threads :
    (via[t] = "query" /\ (retrieval[t] = "raise" \/ GenerationFailed(t))) =>
      /\ pc[t] = "returned"
      /\ error[t] = None
      /\ WellFormed(response[t])

\* C9 amended: for every failure of the completion service, query returns a
\* well-formed response and no exception reaches the caller; the only
\* exception that leaves query is the retriever's, which is passed on to
\* the caller with no response.
C9_OnlyRetrievalEscapes ==
  \A t \in Threads :
    via[t] = "query" =>
      /\ GenerationFailed(t) =>
           /\ pc[t] = "returned"
           /\ error[t] = None
           /\ WellFormed(response[t])
      /\ pc[t] = "raised" => retrieval[t] = "raise"
      /\ retrieval[t] = "raise" =>
           /\ pc[t] = "raised"
           /\ error[t] # None
           /\ DOMAIN response[t] = {}

C9_Witness ==
  \E t \in Threads :
    /\ via[t] = "query"
    /\ pc[t] = "returned"
    /\ completion[t].kind = "nochoices"
    /\ response[t].question = "q2"

\* C10: a failure of the retriever reaches the caller of query as a failure
\* and never becomes a response; the conversation log changes only in the
\* step in which a query returns, and then by one whole entry, so a query
\* that fails or is abandoned leaves the log as it was.
C10_AllOrNothing ==
  [][/\ \A t \in Threads :
          retrieval'[t] = "raise" =>
            /\ pc'[t] = "raised"
            /\ error'[t] = "RetrievalUnavailable"
            /\ DOMAIN response'[t] = {}
     /\ \A t \in Threads :
          (pc'[t] \in {"raised", "abandoned"} /\ pc[t] # pc'[t]) =>
            conversation_history' = conversation_history
     /\ conversation_history' # conversation_history =>
          \E t \in Threads :
            /\ QueryReturns(t)
            /\ DOMAIN conversation_history'[Len(conversation_history')] =
                 {"question", "answer", "sources", "num_contexts"}
            /\ SubSeq(conversation_history', 1, Len(conversation_history)) =
                 conversation_history
            /\ Len(conversation_history') = Len(conversation_history) + 1]_vars

C10_Witness ==
  \E t \in Threads :
    /\ via[t] = "query"
    /\ pc[t] = "raised"
    /\ retrieval[t] = "raise"
    /\ Len(conversation_history) = 1

\* C15: get_stats returns total_queries = number of log entries,
\* total_contexts_retrieved = the sum of their num_contexts and
\* avg_contexts_per_query = their quotient, and 0, 0 and 0.0 for an empty
\* log; clear_history leaves the log empty, so get_stats returns all zeros
\* until the next completed query.
C15_Stats ==
  [][/\ GetStats =>
          LET n == Len(conversation_history)
              total == SumSeq([i \in 1..n |->
                                 conversation_history[i].num_contexts])
              avg == stats'.avg_contexts_per_query
          IN /\ stats'.total_queries = n
             /\ stats'.total_contexts_retrieved = total
             /\ avg.den > 0
             /\ IF n = 0 THEN avg = Zero ELSE avg.num * n = total * avg.den
     /\ ClearHistory => conversation_history' = <<>>
     /\ (GetStats /\ conversation_history = <<>>) =>
          /\ stats'.total_queries = 0
          /\ stats'.total_contexts_retrieved = 0
          /\ stats'.avg_contexts_per_query = Zero]_vars

C15_Witness ==
  /\ stats.op = "get_stats"
  /\ stats.total_queries = 2
  /\ stats.total_contexts_retrieved = 1
  /\ stats.avg_contexts_per_query = [num |-> 1, den |-> 2]
  /\ conversation_history = <<>>
  /\ queries_done = 2

\* C11: search_conversations returns only records whose question or answer
\* contains the text and whose avg_similarity is at least min_similarity,
\* whichever column matched, ordered by created_at descending.
C11_SearchFilter ==
  result.op = "search" =>
    /\ \A i \in 1..Len(result.value) :
         LET row == result.value[i]
         IN /\ \/ Like(row.question, result.text)
               \/ Like(row.answer, result.text)
            /\ AtLeast(row.avg_similarity, result.min)
    /\ \A i, j \in 1..Len(result.value) :
         i < j => result.value[i].created_at >= result.value[j].created_at

\* C12: a log saved into an empty store and loaded back with a sufficient
\* limit reproduces every entry's question, answer, num_contexts and the set
\* of its sources (file, page, similarity), integer pages included.
C12_RoundTrip ==
  ( /\ result.op = "load"
    /\ row_queries = log_queries
    /\ Len(result.value) = Len(conversation_history) ) =>
    \A k \in 1..Len(conversation_history) :
      \E i \in 1..Len(result.value) :
        LET entry == conversation_history[k]
            loaded == result.value[i]
        IN /\ loaded.id = conversations[k].id
           /\ loaded.question = entry.question
           /\ loaded.answer = entry.answer
           /\ loaded.num_contexts = entry.num_contexts
           /\ {loaded.sources[n] : n \in 1..Len(loaded.sources)} =
                {[file |-> entry.sources[n].file,
                  page |-> entry.sources[n].page,
                  similarity |-> entry.sources[n].similarity] :
                   n \in 1..Len(entry.sources)}

\* C13: after any sequence of query, clear_history and save calls no
\* completed query has more than one Conversation Record in the store, and no
\* stored record is modified by a later operation.
C13_OncePerQuery ==
  [][/\ \A i, j \in 1..Len(row_queries') :
          i < j => row_queries'[i] # row_queries'[j]
     /\ \A k \in 1..Len(conversations) :
          /\ k <= Len(conversations')
          /\ conversations'[k] = conversations[k]]_vars

\* C14: a read (load, search, stats) of a store that does not exist returns
\* an empty result, raises nothing and leaves the store non-existent, while
\* load_config_json without a saved snapshot raises a not-found error.
C14_MissingStore ==
  [][/\ (result'.op \in {"load", "search"} /\ ~db_exists) =>
          (result'.value = <<>> /\ ~db_exists')
     /\ (result'.op = "stats" /\ ~db_exists) =>
          (result'.value = EmptyDict /\ ~db_exists')
     /\ (result'.op = "load_config" /\ ~config_saved) =>
          (result'.raised = "FileNotFoundError" /\ ~config_saved')]_vars

C14_Witness ==
  /\ ~db_exists
  /\ ~config_saved
  /\ conversation_history # <<>>
  /\ result.op = "load_config"
  /\ result.raised = "FileNotFoundError"

\* the source rows of the store that belong to conversation id
SourcesOf(id) ==
  {n \in 1..Len(sources) : sources[n].conversation_id = id}

\* C17: in every state a reader can observe, also while a save is in
\* progress or after it failed part-way, every Source row has its parent
\* Conversation Record and every visible record has all of its Source rows;
\* the records a load assembles are whole as well.
C17_NoPartialRecord ==
  /\ \A n \in 1..Len(sources) :
       \E k \in 1..Len(conversations) :
         conversations[k].id = sources[n].conversation_id
  /\ \A k \in 1..Len(conversations) :
       Cardinality(SourcesOf(conversations[k].id)) =
         conversations[k].num_contexts
  /\ \A k \in 1..Len(rd_out) :
       Len(rd_out[k].sources) = rd_out[k].num_contexts
  /\ result.op = "load" =>
       \A k \in 1..Len(result.value) :
         Len(result.value[k].sources) = result.value[k].num_contexts

C17_Witness ==
  /\ save_pc = "inserting"
  /\ txn.conversations # <<>>
  /\ save_j >= 1
  /\ sources # <<>>
  /\ rd_pc = "sources"
  /\ rd_out # <<>>

\* C16: under every interleaving of concurrent query and clear_history calls
\* each query that completed after the last clear_history has exactly one
\* whole entry in the conversation log.
C16_NoLostEntry ==
  /\ Len(conversation_history) = Len(log_queries)
  /\ \A k \in 1..Len(conversation_history) :
       DOMAIN conversation_history[k] =
         {"question", "answer", "sources", "num_contexts"}

====
